---- MODULE Spec2Model ----
(***************************************************************************)
(* Real-time System Monitor Dashboard.                                     *)
(*                                                                         *)
(* Three components of the program are modelled, each with its own         *)
(* specification over the same state:                                      *)
(*   SpecMonitor    SystemMonitor   (src/src/system/monitor.rs)            *)
(*   SpecDashboard  Dashboard       (src/src/ui/dashboard.rs)              *)
(*   SpecEvents     EventHandler    (src/src/ui/events.rs)                 *)
(* and two specifications model the event loop run_app of src/src/main.rs: *)
(*   SpecApp   run_app over the Dashboard of dashboard.rs and the          *)
(*             EventHandler of events.rs                                   *)
(*   SpecMain  run_app over the types main.rs imports, ui::Dashboard and   *)
(*             ui::EventHandler, which are the placeholders of ui/mod.rs   *)
(* Variables whose names start with g_ are history (ghost) variables: they *)
(* record what an operation was given and what it saw, and no operation    *)
(* of the program reads them.                                              *)
(***************************************************************************)
EXTENDS Integers, Sequences, FiniteSets, TLC

VARIABLES
    \* SystemMonitor (monitor.rs:41-46)
    cpu_history,            \* VecDeque<CpuData>, front = index 1
    memory_history,         \* VecDeque<MemoryData>, front = index 1
    max_history,            \* usize
    \* history variables of SystemMonitor
    g_clock,                \* logical time of Local::now(): samples taken so far
    g_ops,                  \* number of SystemMonitor operations performed
    g_cpu_since,            \* CPU samples pushed since max_history was last set
    g_mem_since,            \* memory samples pushed since max_history was last set
    g_cpu_base,             \* cpu_history as it was when max_history was last set
    g_mem_base,             \* memory_history as it was when max_history was last set
    g_mon_op,               \* the last SystemMonitor operation and the state it found
    \* Dashboard (dashboard.rs:36-40); settings is read-only and not modelled
    current_tab,            \* TabIndex
    process_scroll_offset,  \* usize
    \* history variable of Dashboard
    g_last,                 \* the last handle_event call: the action applied,
                            \* the state found and the value returned
    g_prev,                 \* the handle_event call before the last one
    g_run,                  \* the NextTab actions applied in a row: how many,
                            \* and the state the first of them found
    \* EventHandler (events.rs:5-8); key_debounce_ms is set once, in new
    last_key_time,          \* Option<Instant>
    \* history variables of EventHandler
    g_now,                  \* the monotonic clock read by Instant::now(), in ticks
    g_triggers,             \* the debounced keys read so far: when, which, and
                            \* whether next_event delivered them
    g_call,                 \* the last next_event call: what poll and read gave,
                            \* what was returned, last_key_time as it was found
    \* run_app (main.rs:107-136)
    pc,                     \* where run_app is: "draw", "select" or "done"
    result,                 \* what run_app returned: "none" (running), "Ok", "Err"
    tick_ready,             \* whether refresh_interval.tick() is ready to complete
    \* history variables of run_app
    g_step,                 \* the select! branch that ran since the last render
                            \* call, and what it was given ("none": none yet)
    g_iter,                 \* render calls since the last branch ran, branches run
                            \* since the last render call, and what that call saw
    \* main (main.rs:41-104)
    settings,               \* Settings, as loaded; the history lengths of it
    terminal,               \* the terminal: raw mode, alternate screen, mouse
                            \* capture, cursor
    main_pc,                \* where main is: "run_app", "leave_screen",
                            \* "show_cursor", "report" or "exit"
    main_exit,              \* what main returned: "none" (running), "Ok", "Err"
    surfaced                \* whether the error of run_app was printed

monitor_vars == <<cpu_history, memory_history, max_history, g_clock, g_ops,
                  g_cpu_since, g_mem_since, g_cpu_base, g_mem_base, g_mon_op>>

dashboard_vars == <<current_tab, process_scroll_offset, g_last, g_prev, g_run>>

events_vars == <<last_key_time, g_now, g_triggers, g_call>>

main_vars == <<settings, terminal, main_pc, main_exit, surfaced>>

app_vars == <<pc, result, tick_ready, g_step, g_iter, main_vars>>

vars == <<monitor_vars, dashboard_vars, events_vars, app_vars>>

Min(a, b) == IF a < b THEN a ELSE b
Max(a, b) == IF a > b THEN a ELSE b

\* The last n elements of s, in the order of s.
LastN(s, n) == SubSeq(s, Len(s) - n + 1, Len(s))

(***************************************************************************)
(* Bounds of the model.                                                    *)
(***************************************************************************)
\* SystemMonitor operations performed in one behaviour.
MaxOps == 5
\* Largest capacity passed to set_max_history.
MaxCap == 3
\* Largest process_scroll_offset reached by scroll_down.
MaxScroll == 5
\* Resolution of the monotonic clock: ticks per millisecond.
TicksPerMs == 2
\* Time, in milliseconds, up to which the clock is followed.
MaxTime == 200
\* Debounced keys read in one behaviour.
MaxTriggers == 3
\* Refresh ticks handled by run_app in one behaviour.
MaxTicks == 2
\* Processes in the list the process widget is given.
MaxProcs == 2

(***************************************************************************)
(* SystemMonitor                                                           *)
(***************************************************************************)
\* max_history of a new SystemMonitor.
DefaultMaxHistory == 60

\* What sysinfo reports for the global CPU at a refresh: usage (percent)
\* and frequency (MHz).
CpuReadings == {[usage |-> 10, frequency |-> 1000], [usage |-> 90, frequency |-> 3000]}

\* What sysinfo reports for memory at a refresh: used and total bytes
\* (total = 0: no memory information).
MemoryReadings == {[used |-> 1, total |-> 2], [used |-> 0, total |-> 0]}

\* CpuData built by update_cpu_history.
CpuData(reading, now) ==
    [timestamp |-> now, usage |-> reading.usage, frequency |-> reading.frequency]

\* usage_percent computed by update_memory_history; the f32 quotient is
\* exact for the readings of MemoryReadings.
MemoryUsagePercent(used, total) ==
    IF total > 0 THEN (used * 100) \div total ELSE 0

\* MemoryData built by update_memory_history.
MemoryData(reading, now) ==
    [timestamp |-> now, used |-> reading.used, total |-> reading.total,
     usage_percent |-> MemoryUsagePercent(reading.used, reading.total)]

\* VecDeque::push_back and VecDeque::pop_front (on a non-empty deque).
push_back(q, x) == Append(q, x)
pop_front(q) == Tail(q)

\* Mutant: the newest entry is dropped on overflow instead of the oldest.
update_cpu_history_drop_newest(history, cpu_data, max) ==
    LET pushed == push_back(history, cpu_data)
    IN  IF Len(pushed) > max THEN SubSeq(pushed, 1, Len(pushed) - 1) ELSE pushed

\* Mutant: the CPU history is never evicted from.
update_cpu_history_no_evict(history, cpu_data, max) == push_back(history, cpu_data)

\* update_cpu_history: the new cpu_history.
update_cpu_history(history, cpu_data, max) ==
    LET pushed == push_back(history, cpu_data)
    IN  IF Len(pushed) > max THEN pop_front(pushed) ELSE pushed

\* Mutant: the memory sample is not stored.
update_memory_history_none(history, memory_data, max) == history

\* update_memory_history: the new memory_history.

update_memory_history(history, memory_data, max) ==
    LET pushed == push_back(history, memory_data)
    IN  IF Len(pushed) > max THEN pop_front(pushed) ELSE pushed

\* Mutant: the capacity is stored and the stored samples are not trimmed.
trim_history_none(history, max) == history

\* Mutant: the trimming loop removes from the back.
trim_history_from_back(history, max) ==
    IF Len(history) > max THEN SubSeq(history, 1, max) ELSE history

\* The trimming loops of set_max_history: pop_front while len > max.
RECURSIVE trim_history(_, _)
trim_history(history, max) ==
    IF Len(history) > max THEN trim_history(pop_front(history), max) ELSE history

MonitorInit ==
    /\ cpu_history = <<>>
    /\ memory_history = <<>>
    /\ max_history = DefaultMaxHistory
    /\ g_clock = 0
    /\ g_ops = 0
    /\ g_cpu_since = <<>>
    /\ g_mem_since = <<>>
    /\ g_cpu_base = <<>>
    /\ g_mem_base = <<>>
    /\ g_mon_op = [op |-> "new", max |-> DefaultMaxHistory,
                   cpu_before |-> <<>>, mem_before |-> <<>>,
                   max_before |-> DefaultMaxHistory]

\* What every SystemMonitor operation records about itself.
MonitorOp(name, max) ==
    [op |-> name, max |-> max, cpu_before |-> cpu_history,
     mem_before |-> memory_history, max_before |-> max_history]

refresh_all ==
    /\ g_ops < MaxOps
    /\ \E c \in CpuReadings, m \in MemoryReadings :
          LET cpu_data == CpuData(c, g_clock + 1)
              memory_data == MemoryData(m, g_clock + 1)
          IN  /\ cpu_history' = update_cpu_history(cpu_history, cpu_data, max_history)
              /\ memory_history' =
                     update_memory_history(memory_history, memory_data, max_history)
              /\ g_cpu_since' = Append(g_cpu_since, cpu_data)
              /\ g_mem_since' = Append(g_mem_since, memory_data)
    /\ g_clock' = g_clock + 1
    /\ g_ops' = g_ops + 1
    /\ g_mon_op' = MonitorOp("refresh_all", max_history)
    /\ UNCHANGED <<max_history, g_cpu_base, g_mem_base, dashboard_vars, events_vars,
                   app_vars>>

refresh_cpu ==
    /\ g_ops < MaxOps
    /\ \E c \in CpuReadings :
          LET cpu_data == CpuData(c, g_clock + 1)
          IN  /\ cpu_history' = update_cpu_history(cpu_history, cpu_data, max_history)
              /\ g_cpu_since' = Append(g_cpu_since, cpu_data)
    /\ g_clock' = g_clock + 1
    /\ g_ops' = g_ops + 1
    /\ g_mon_op' = MonitorOp("refresh_cpu", max_history)
    /\ UNCHANGED <<memory_history, max_history, g_mem_since, g_cpu_base, g_mem_base,
                   dashboard_vars, events_vars, app_vars>>

refresh_memory ==
    /\ g_ops < MaxOps
    /\ \E m \in MemoryReadings :
          LET memory_data == MemoryData(m, g_clock + 1)
          IN  /\ memory_history' =
                     update_memory_history(memory_history, memory_data, max_history)
              /\ g_mem_since' = Append(g_mem_since, memory_data)
    /\ g_clock' = g_clock + 1
    /\ g_ops' = g_ops + 1
    /\ g_mon_op' = MonitorOp("refresh_memory", max_history)
    /\ UNCHANGED <<cpu_history, max_history, g_cpu_since, g_cpu_base, g_mem_base,
                   dashboard_vars, events_vars, app_vars>>

set_max_history ==
    /\ g_ops < MaxOps
    /\ \E max \in 0 .. MaxCap :
          /\ max_history' = max
          /\ cpu_history' = trim_history(cpu_history, max)
          /\ memory_history' = trim_history(memory_history, max)
          /\ g_mon_op' = MonitorOp("set_max_history", max)
    /\ g_cpu_base' = cpu_history'
    /\ g_mem_base' = memory_history'
    /\ g_cpu_since' = <<>>
    /\ g_mem_since' = <<>>
    /\ g_ops' = g_ops + 1
    /\ UNCHANGED <<g_clock, dashboard_vars, events_vars, app_vars>>

(***************************************************************************)
(* Terminal events (crossterm::event::Event)                               *)
(***************************************************************************)
\* Event::Key(KeyEvent { code, modifiers, .. }).  A code is the name of the
\* KeyCode variant, or the character c of KeyCode::Char(c).
Key(code, modifiers) == [type |-> "Key", code |-> code, modifiers |-> modifiers]

\* The key events of the mapping table of handle_key_event.
MappedKeys ==
    {Key("q", "NONE"), Key("c", "CONTROL"), Key("Esc", "NONE"),
     Key("Tab", "NONE"), Key("BackTab", "SHIFT"),
     Key("1", "NONE"), Key("2", "NONE"), Key("3", "NONE"), Key("4", "NONE"),
     Key("Up", "NONE"), Key("Down", "NONE"),
     Key("r", "NONE"), Key("h", "NONE")}

\* Key events the table does not hold.
UnmappedKeys ==
    {Key("Tab", "CONTROL"), Key("BackTab", "NONE"), Key("Q", "SHIFT"),
     Key("c", "NONE")}

\* An event that is not a key event.
Resize == [type |-> "Resize"]

Events == MappedKeys \cup UnmappedKeys \cup {Resize}

(***************************************************************************)
(* events.rs: the mapping of key events to actions                         *)
(***************************************************************************)
\* enum AppAction, and None of Option<AppAction>.
Quit == [name |-> "Quit"]
NextTab == [name |-> "NextTab"]
PrevTab == [name |-> "PrevTab"]
GoToTab(index) == [name |-> "GoToTab", index |-> index]
ScrollUp == [name |-> "ScrollUp"]
ScrollDown == [name |-> "ScrollDown"]
Refresh == [name |-> "Refresh"]
Help == [name |-> "Help"]
NoAction == [name |-> "None"]

should_quit(event) ==
    /\ event.type = "Key"
    /\ \/ event.code = "q" /\ event.modifiers = "NONE"
       \/ event.code = "c" /\ event.modifiers = "CONTROL"
       \/ event.code = "Esc" /\ event.modifiers = "NONE"

\* Mutant: the table matches on the key code alone, whatever the modifiers.
handle_key_event_any_modifier(event) ==
    LET c == event.code
    IN  CASE c \in {"q", "c", "Esc"} -> Quit
          [] c = "Tab" -> NextTab
          [] c = "BackTab" -> PrevTab
          [] c \in {"1", "2", "3", "4"} ->
                 GoToTab(CHOOSE i \in 0 .. 3 : <<"1", "2", "3", "4">>[i + 1] = c)
          [] c = "Up" -> ScrollUp
          [] c = "Down" -> ScrollDown
          [] c = "r" -> Refresh
          [] c = "h" -> Help
          [] OTHER -> NoAction

handle_key_event(event) ==
    LET k == <<event.code, event.modifiers>>
    IN  CASE k = <<"q", "NONE">> -> Quit
          [] k = <<"c", "CONTROL">> -> Quit
          [] k = <<"Esc", "NONE">> -> Quit
          [] k = <<"Tab", "NONE">> -> NextTab
          [] k = <<"BackTab", "SHIFT">> -> PrevTab
          [] k = <<"1", "NONE">> -> GoToTab(0)
          [] k = <<"2", "NONE">> -> GoToTab(1)
          [] k = <<"3", "NONE">> -> GoToTab(2)
          [] k = <<"4", "NONE">> -> GoToTab(3)
          [] k = <<"Up", "NONE">> -> ScrollUp
          [] k = <<"Down", "NONE">> -> ScrollDown
          [] k = <<"r", "NONE">> -> Refresh
          [] k = <<"h", "NONE">> -> Help
          [] OTHER -> NoAction

(***************************************************************************)
(* Dashboard                                                               *)
(***************************************************************************)
\* enum TabIndex; `tab as usize` and TabIndex::from(index).
TabIndex == {"Overview", "Processes", "Network", "Help"}

TabAsUsize(tab) ==
    CASE tab = "Overview" -> 0
      [] tab = "Processes" -> 1
      [] tab = "Network" -> 2
      [] tab = "Help" -> 3

TabIndexFrom(index) ==
    CASE index = 0 -> "Overview"
      [] index = 1 -> "Processes"
      [] index = 2 -> "Network"
      [] index = 3 -> "Help"
      [] OTHER -> "Overview"

\* "We have 4 tabs".
TabCount == 4

\* usize::saturating_sub.
saturating_sub(a, b) == IF a >= b THEN a - b ELSE 0

\* The fields of the Dashboard that handle_event works on.
Self == [current_tab |-> current_tab,
         process_scroll_offset |-> process_scroll_offset]

\* Mutant: the wrap of the tab cycle is off by one (% 3 for % 4).
next_tab_wrong_modulus(self) ==
    [self EXCEPT !.current_tab = TabIndexFrom((TabAsUsize(@) + 1) % 3),
                 !.process_scroll_offset = 0]

\* Mutant: the tab moves on without the reset of the scroll offset.
next_tab_no_reset(self) ==
    [self EXCEPT !.current_tab = TabIndexFrom((TabAsUsize(@) + 1) % 4)]

next_tab(self) ==
    LET current == TabAsUsize(self.current_tab)
        next == (current + 1) % TabCount
    IN  [self EXCEPT !.current_tab = TabIndexFrom(next),
                     !.process_scroll_offset = 0]

\* Mutant: the tab moves back without the reset of the scroll offset.
prev_tab_no_reset(self) ==
    [self EXCEPT !.current_tab =
                     TabIndexFrom(IF TabAsUsize(@) = 0 THEN 3 ELSE TabAsUsize(@) - 1)]

\* Mutant: no wrap-around from the first tab to the last.
prev_tab_no_wrap(self) ==
    [self EXCEPT !.current_tab = TabIndexFrom(saturating_sub(TabAsUsize(@), 1)),
                 !.process_scroll_offset = 0]

prev_tab(self) ==
    LET current == TabAsUsize(self.current_tab)
        prev == IF current = 0 THEN 3 ELSE current - 1
    IN  [self EXCEPT !.current_tab = TabIndexFrom(prev),
                     !.process_scroll_offset = 0]

\* Mutant: the subtraction does not saturate.
scroll_up_unsaturated(self) ==
    IF self.current_tab = "Processes"
    THEN [self EXCEPT !.process_scroll_offset = @ - 1]
    ELSE self

scroll_up(self) ==
    IF self.current_tab = "Processes"
    THEN [self EXCEPT !.process_scroll_offset = saturating_sub(@, 1)]
    ELSE self

\* Mutant: scrolling is not restricted to the Processes tab.
scroll_down_any_tab(self) ==
    [self EXCEPT !.process_scroll_offset = @ + 1]

scroll_down(self) ==
    IF self.current_tab = "Processes"
    THEN [self EXCEPT !.process_scroll_offset = @ + 1]
    ELSE self

\* The action handle_event applies to the event (None: none).
ActionOf(event) ==
    IF event.type = "Key" THEN handle_key_event(event) ELSE NoAction

\* Mutant: the Help arm resets the scroll offset as next_tab does.
handle_event_help_resets(self, event) ==
    LET action == IF should_quit(event) THEN Quit ELSE ActionOf(event)
    IN  [self |-> CASE action = NextTab -> next_tab(self)
                    [] action = PrevTab -> prev_tab(self)
                    [] action = ScrollUp -> scroll_up(self)
                    [] action = ScrollDown -> scroll_down(self)
                    [] action = Help ->
                           [current_tab |-> "Help", process_scroll_offset |-> 0]
                    [] OTHER -> self,
         quit |-> action = Quit]

\* handle_event: the new fields and the value returned (TRUE: quit).  The
\* match on the action has no arm for GoToTab.
handle_event(self, event) ==
    IF should_quit(event)
    THEN [self |-> self, quit |-> TRUE]
    ELSE LET action == ActionOf(event)
         IN  CASE action = Quit -> [self |-> self, quit |-> TRUE]
               [] action = NextTab -> [self |-> next_tab(self), quit |-> FALSE]
               [] action = PrevTab -> [self |-> prev_tab(self), quit |-> FALSE]
               [] action = ScrollUp -> [self |-> scroll_up(self), quit |-> FALSE]
               [] action = ScrollDown -> [self |-> scroll_down(self), quit |-> FALSE]
               [] action = Refresh -> [self |-> self, quit |-> FALSE]
               [] action = Help ->
                      [self |-> [self EXCEPT !.current_tab = "Help"], quit |-> FALSE]
               [] OTHER -> [self |-> self, quit |-> FALSE]

\* No handle_event call, and no run of NextTab actions.
NoCall == [action |-> NoAction, tab |-> "Overview", scroll |-> 0, quit |-> FALSE,
           called |-> FALSE]
NoRun == [count |-> 0, tab |-> "Overview", scroll |-> 0]

DashboardInit ==
    /\ current_tab = "Overview"
    /\ process_scroll_offset = 0
    /\ g_last = NoCall
    /\ g_prev = NoCall
    /\ g_run = NoRun

\* Whether handle_event(event) would take process_scroll_offset past the
\* model's bound.
BeyondMaxScroll(event) ==
    handle_event(Self, event).self.process_scroll_offset > MaxScroll

\* dashboard.handle_event(event), for any event.
Dashboard_handle_event ==
    \E event \in Events :
        /\ ~BeyondMaxScroll(event)
        /\ LET r == handle_event(Self, event)
               action == ActionOf(event)
           IN  /\ current_tab' = r.self.current_tab
               /\ process_scroll_offset' = r.self.process_scroll_offset
               /\ g_last' = [action |-> action, tab |-> current_tab,
                             scroll |-> process_scroll_offset, quit |-> r.quit,
                             called |-> TRUE]
               /\ g_prev' = g_last
               /\ g_run' = IF action # NextTab THEN NoRun
                           ELSE IF g_run.count \in 1 .. TabCount - 1
                           THEN [g_run EXCEPT !.count = @ + 1]
                           ELSE [count |-> 1, tab |-> current_tab,
                                 scroll |-> process_scroll_offset]
        /\ UNCHANGED <<monitor_vars, events_vars, app_vars>>

(***************************************************************************)
(* widgets.rs: ProcessWidget::render                                       *)
(***************************************************************************)
\* The processes the monitor may report, (pid, process) pairs reduced to
\* the pid and the CPU usage, and the lists of them, in any order (the
\* order of a map's iterator), without a pid twice.
Processes == {[pid |-> 1, cpu |-> 0], [pid |-> 2, cpu |-> 7], [pid |-> 3, cpu |-> 7]}
ProcessLists ==
    {l \in UNION {[1 .. n -> Processes] : n \in 0 .. MaxProcs} :
        \A i, j \in 1 .. Len(l) : i # j => l[i].pid # l[j].pid}

\* area.height of the widget: none, the border alone, room for 1 or 2 rows.
Heights == {0, 2, 3, 4}

\* sort_by(|a, b| b.cpu_usage().partial_cmp(&a.cpu_usage())): a stable
\* sort, highest CPU usage first.
RECURSIVE sort_by_cpu(_)
sort_by_cpu(l) ==
    IF l = <<>> THEN <<>>
    ELSE LET rest == sort_by_cpu(Tail(l))
             before == SelectSeq(rest, LAMBDA p : p.cpu > Head(l).cpu)
             after == SelectSeq(rest, LAMBDA p : p.cpu <= Head(l).cpu)
         IN  before \o <<Head(l)>> \o after

\* Mutant: a slice [n..] in place of the iterator's skip: it panics when n
\* is beyond the end.
skip_by_slice(s, n) == IF n > Len(s) THEN "panic" ELSE SubSeq(s, n + 1, Len(s))

\* Iterator::skip and Iterator::take (a panic before take goes through it).
skip(s, n) == IF n >= Len(s) THEN <<>> ELSE SubSeq(s, n + 1, Len(s))
take(s, n) == IF s = "panic" THEN "panic" ELSE SubSeq(s, 1, Min(n, Len(s)))

\* The rows ProcessWidget::render puts in the list, as the pids shown.
ProcessWidget_render(processes, height, scroll_offset) ==
    take(skip(sort_by_cpu(processes), scroll_offset), saturating_sub(height, 2))

(***************************************************************************)
(* EventHandler                                                            *)
(***************************************************************************)
\* Option<T>.
None == <<>>
Some(x) == <<x>>

\* "150ms debounce for tab switching".
key_debounce_ms == 150

\* What poll(100 ms) and event::read() give to one call of next_event.
PollTimeout == [poll |-> "Ok(false)"]
PollError == [poll |-> "Err"]
ReadError == [poll |-> "Ok(true)", read |-> "Err"]
ReadOk(event) == [poll |-> "Ok(true)", read |-> "Ok", event |-> event]

Inputs == {PollTimeout, PollError, ReadError} \cup {ReadOk(e) : e \in Events}

\* Whether the input is an event that was read.
IsRead(input) == input.poll = "Ok(true)" /\ input.read = "Ok"

\* Instant::duration_since (zero when earlier is the later one) and
\* Duration::as_millis (whole milliseconds, truncated).
duration_since(now, earlier) == IF now >= earlier THEN now - earlier ELSE 0
as_millis(duration) == duration \div TicksPerMs

\* Mutant: every key is debounced, not only the tab navigation keys.
should_debounce_key_all(key_event) == TRUE

\* Mutant: only Tab is debounced, BackTab is not.
should_debounce_key_tab_only(key_event) == key_event.code = "Tab"

should_debounce_key(key_event) == key_event.code \in {"Tab", "BackTab"}

\* Mutant: a key exactly key_debounce_ms after the last one is suppressed
\* too (<= for <).
too_soon_inclusive(now, last_time) ==
    as_millis(duration_since(now, last_time)) <= key_debounce_ms

\* The test of next_event for "too soon".
too_soon(now, last_time) ==
    as_millis(duration_since(now, last_time)) < key_debounce_ms

\* Mutant: the timestamp is recorded before the test, so that a suppressed
\* key restarts the window.
next_event_stamp_first(last_time, now, input) ==
    IF ~IsRead(input) THEN [last_key_time |-> last_time, returned |-> None]
    ELSE IF input.event.type = "Key" /\ should_debounce_key(input.event)
    THEN IF last_time # None /\ too_soon(now, last_time[1])
         THEN [last_key_time |-> Some(now), returned |-> None]
         ELSE [last_key_time |-> Some(now), returned |-> Some(input.event)]
    ELSE [last_key_time |-> last_time, returned |-> Some(input.event)]

\* Mutant: a failed poll or read restarts the debounce window.
next_event_error_stamps(last_time, now, input) ==
    IF input \in {PollError, ReadError}
    THEN [last_key_time |-> Some(now), returned |-> None]
    ELSE next_event_stamp_first(last_time, now, input)

\* next_event: the new last_key_time and the value returned.  now is what
\* Instant::now() gives.
next_event(last_time, now, input) ==
    IF input.poll = "Ok(true)"
    THEN IF input.read = "Ok"
         THEN LET event == input.event
              IN  IF event.type = "Key" /\ should_debounce_key(event)
                  THEN IF last_time # None /\ too_soon(now, last_time[1])
                       THEN [last_key_time |-> last_time, returned |-> None]
                       ELSE [last_key_time |-> Some(now),
                             returned |-> Some(event)]
                  ELSE [last_key_time |-> last_time, returned |-> Some(event)]
         ELSE [last_key_time |-> last_time, returned |-> None]
    ELSE [last_key_time |-> last_time, returned |-> None]

EventsInit ==
    /\ last_key_time = None
    /\ g_now = 0
    /\ g_triggers = <<>>
    /\ g_call = [input |-> PollTimeout, returned |-> None, before |-> None,
                 called |-> FALSE]

\* Whether the input is a key of the debounced class (by its code alone,
\* as should_debounce_key tests it).
IsTrigger(input) ==
    /\ IsRead(input)
    /\ input.event.type = "Key"
    /\ input.event.code \in {"Tab", "BackTab"}

\* event_handler.next_event(), for anything poll and read may give.
EventHandler_next_event ==
    \E input \in Inputs :
        /\ IsTrigger(input) => Len(g_triggers) < MaxTriggers
        /\ LET r == next_event(last_key_time, g_now, input)
           IN  /\ last_key_time' = r.last_key_time
               /\ g_call' = [input |-> input, returned |-> r.returned,
                             before |-> last_key_time, called |-> TRUE]
               /\ g_triggers' =
                      IF IsTrigger(input)
                      THEN Append(g_triggers,
                                  [time |-> g_now, code |-> input.event.code,
                                   delivered |-> r.returned # None])
                      ELSE g_triggers
        /\ UNCHANGED <<g_now, monitor_vars, dashboard_vars, app_vars>>

\* The time that passes between two readings of the clock.
Delays == {50 * TicksPerMs, 100 * TicksPerMs - 1}

\* Time passes.
Elapse ==
    \E d \in Delays :
        /\ g_now + d <= MaxTime * TicksPerMs
        /\ g_now' = g_now + d
        /\ UNCHANGED <<last_key_time, g_triggers, g_call, monitor_vars, dashboard_vars,
                       app_vars>>

(***************************************************************************)
(* run_app                                                                 *)
(***************************************************************************)
\* ui/mod.rs: the placeholder EventHandler::next_event returns None and
\* reads nothing; the placeholder Dashboard::handle_event returns Ok(false).
placeholder_next_event(last_time, now, input) ==
    [last_key_time |-> last_time, returned |-> None]

placeholder_handle_event(self, event) == [self |-> self, quit |-> FALSE]

\* event_handler.next_event() and dashboard.handle_event(event) of run_app,
\* for the types it is wired to: "modules" (events.rs, dashboard.rs) or
\* "placeholders" (ui/mod.rs).
wired_next_event(wired, last_time, now, input) ==
    IF wired = "placeholders"
    THEN placeholder_next_event(last_time, now, input)
    ELSE next_event(last_time, now, input)

wired_handle_event(wired, self, event) ==
    IF wired = "placeholders"
    THEN placeholder_handle_event(self, event)
    ELSE handle_event(self, event)

\* What a render call is given: the dashboard and the monitor.
View == [tab |-> current_tab, scroll |-> process_scroll_offset,
         cpu |-> cpu_history, memory |-> memory_history]

\* Mutant: a failed render call is ignored.
after_draw_ignore_error(outcome) == "select"

\* Where run_app goes after terminal.draw(..)?.
\* Mutant: after a render the loop waits for an input event with no
\* timeout, and none arrives.
after_draw_blocks(outcome) == IF outcome = "Err" THEN "done" ELSE "wait"

after_draw(outcome) == IF outcome = "Err" THEN "done" ELSE "select"

\* Mutant: the input branch does not break on quit.
after_input_no_break(quit) == "draw"

\* Where run_app goes after the input branch: break on quit, else loop.
\* Mutant: the input branch starts the next select! without a render.
after_input_no_draw(quit) == IF quit THEN "done" ELSE "select"

after_input(quit) == IF quit THEN "done" ELSE "draw"

\* Mutant: the tick branch goes on to another select! without a render.
after_tick_no_draw == "select"

\* Where run_app goes after the tick branch: the top of the loop.
after_tick == "draw"

\* settings.rs: Settings, reduced to the two history lengths of
\* SystemSettings; Settings::default(), and what a configuration file may
\* hold.
Settings_default == [cpu_history_length |-> 60, memory_history_length |-> 60]
LoadedSettings ==
    {Settings_default,
     [cpu_history_length |-> 2, memory_history_length |-> 2],
     [cpu_history_length |-> 1, memory_history_length |-> 3]}

\* The terminal as main's setup leaves it for run_app (raw mode on,
\* alternate screen entered, mouse captured; the renders hide the cursor),
\* and as main found it.
InUse == [raw_mode |-> TRUE, alternate_screen |-> TRUE, mouse_capture |-> TRUE,
          cursor_shown |-> FALSE]
Restored == [raw_mode |-> FALSE, alternate_screen |-> FALSE, mouse_capture |-> FALSE,
             cursor_shown |-> TRUE]

\* No select! branch has run.
NoStep == [kind |-> "none", input |-> PollTimeout, returned |-> None, quit |-> FALSE]

\* main.rs:64-79: the monitor after SystemMonitor::new() and the first
\* refresh_all(), a new dashboard and event handler, and an interval whose
\* first tick completes at once.
main_startup(loaded) ==
    /\ settings = loaded
    /\ terminal = InUse
    /\ main_pc = "run_app"
    /\ main_exit = "none"
    /\ surfaced = FALSE
    /\ \E c \in CpuReadings, m \in MemoryReadings :
          /\ cpu_history = <<CpuData(c, 1)>>
          /\ memory_history = <<MemoryData(m, 1)>>
    /\ max_history = DefaultMaxHistory
    /\ g_clock = 1
    /\ g_ops = 1
    /\ g_cpu_since = cpu_history
    /\ g_mem_since = memory_history
    /\ g_cpu_base = <<>>
    /\ g_mem_base = <<>>
    /\ g_mon_op = [op |-> "refresh_all", max |-> DefaultMaxHistory,
                   cpu_before |-> <<>>, mem_before |-> <<>>,
                   max_before |-> DefaultMaxHistory]
    /\ DashboardInit
    /\ EventsInit
    /\ pc = "draw"
    /\ result = "none"
    /\ tick_ready = TRUE
    /\ g_step = NoStep
    /\ g_iter = [draws |-> 0, branches |-> 0, applied |-> FALSE,
                 refreshed |-> FALSE, view |-> View]

\* main started with the configuration file missing: Settings::default().
AppInit == main_startup(Settings_default)

\* main started with a configuration file, whatever its history lengths.
StartupInit == \E loaded \in LoadedSettings : main_startup(loaded)

\* terminal.draw(|f| dashboard.render(f, system_monitor))?
App_draw ==
    /\ pc = "draw"
    /\ \E outcome \in {"Ok", "Err"} :
          /\ pc' = after_draw(outcome)
          /\ result' = IF outcome = "Err" THEN "Err" ELSE result
    /\ g_iter' = [draws |-> g_iter.draws + 1, branches |-> 0, applied |-> FALSE,
                  refreshed |-> FALSE, view |-> View]
    /\ g_step' = NoStep
    /\ UNCHANGED <<monitor_vars, dashboard_vars, events_vars, tick_ready, main_vars>>

\* The branch `event = event_handler.next_event() => ..` of select!.
\* next_event has no await in it: once polled it runs to its end, so the
\* branch can always be the one that completes.
App_input(wired) ==
    /\ pc = "select"
    /\ \E input \in Inputs :
          LET r == wired_next_event(wired, last_key_time, g_now, input)
              delivered == r.returned # None
              h == IF delivered
                   THEN wired_handle_event(wired, Self, r.returned[1])
                   ELSE [self |-> Self, quit |-> FALSE]
          IN  /\ h.self.process_scroll_offset <= MaxScroll
              /\ last_key_time' = r.last_key_time
              /\ current_tab' = h.self.current_tab
              /\ process_scroll_offset' = h.self.process_scroll_offset
              /\ pc' = after_input(h.quit)
              /\ result' = IF h.quit THEN "Ok" ELSE result
              /\ g_step' = [kind |-> "input", input |-> input,
                            returned |-> r.returned, quit |-> h.quit]
              /\ g_iter' = [g_iter EXCEPT !.draws = 0, !.branches = @ + 1,
                                          !.applied = delivered]
    /\ UNCHANGED <<monitor_vars, g_last, g_prev, g_run, g_now, g_triggers, g_call,
                   tick_ready, main_vars>>

\* Mutant: the tick branch also puts the process list back to its top.
App_tick_resets_scroll ==
    /\ pc = "select"
    /\ tick_ready
    /\ g_ops <= MaxTicks
    /\ \E c \in CpuReadings, m \in MemoryReadings :
          LET cpu_data == CpuData(c, g_clock + 1)
              memory_data == MemoryData(m, g_clock + 1)
          IN  /\ cpu_history' = update_cpu_history(cpu_history, cpu_data, max_history)
              /\ memory_history' =
                     update_memory_history(memory_history, memory_data, max_history)
              /\ g_cpu_since' = Append(g_cpu_since, cpu_data)
              /\ g_mem_since' = Append(g_mem_since, memory_data)
    /\ g_clock' = g_clock + 1
    /\ g_ops' = g_ops + 1
    /\ g_mon_op' = MonitorOp("refresh_all", max_history)
    /\ tick_ready' = FALSE
    /\ pc' = "draw"
    /\ g_step' = [NoStep EXCEPT !.kind = "tick"]
    /\ g_iter' = [g_iter EXCEPT !.draws = 0, !.branches = @ + 1, !.refreshed = TRUE]
    /\ process_scroll_offset' = 0
    /\ UNCHANGED <<max_history, g_cpu_base, g_mem_base, current_tab, g_last, g_prev,
                   g_run, events_vars, result, main_vars>>

\* Mutant: select! is biased to its first branch, which is never pending,
\* so the tick branch never completes.
App_tick_biased ==
    /\ FALSE
    /\ UNCHANGED vars

\* The branch `_ = refresh_interval.tick() => system_monitor.refresh_all()`.
App_tick ==
    /\ pc = "select"
    /\ tick_ready
    /\ g_ops <= MaxTicks
    /\ \E c \in CpuReadings, m \in MemoryReadings :
          LET cpu_data == CpuData(c, g_clock + 1)
              memory_data == MemoryData(m, g_clock + 1)
          IN  /\ cpu_history' = update_cpu_history(cpu_history, cpu_data, max_history)
              /\ memory_history' =
                     update_memory_history(memory_history, memory_data, max_history)
              /\ g_cpu_since' = Append(g_cpu_since, cpu_data)
              /\ g_mem_since' = Append(g_mem_since, memory_data)
    /\ g_clock' = g_clock + 1
    /\ g_ops' = g_ops + 1
    /\ g_mon_op' = MonitorOp("refresh_all", max_history)
    /\ tick_ready' = FALSE
    /\ pc' = after_tick
    /\ g_step' = [NoStep EXCEPT !.kind = "tick"]
    /\ g_iter' = [g_iter EXCEPT !.draws = 0, !.branches = @ + 1, !.refreshed = TRUE]
    /\ UNCHANGED <<max_history, g_cpu_base, g_mem_base, dashboard_vars, events_vars,
                   result, main_vars>>

\* Time passes between two rounds of the loop: here, the debounce window.
LoopElapse ==
    /\ pc # "done"
    /\ g_now + key_debounce_ms * TicksPerMs <= MaxTime * TicksPerMs
    /\ g_now' = g_now + key_debounce_ms * TicksPerMs
    /\ UNCHANGED <<last_key_time, g_triggers, g_call, monitor_vars, dashboard_vars,
                   app_vars>>

\* The period of refresh_interval has passed (not after the last tick the
\* model lets run_app handle).
TimerFires ==
    /\ pc # "done"
    /\ ~tick_ready
    /\ g_ops <= MaxTicks
    /\ tick_ready' = TRUE
    /\ UNCHANGED <<monitor_vars, dashboard_vars, events_vars, pc, result, g_step,
                   g_iter, main_vars>>

(***************************************************************************)
(* main, after run_app has returned (main.rs:91-104)                       *)
(***************************************************************************)
\* disable_raw_mode(), execute!(.., LeaveAlternateScreen,
\* DisableMouseCapture) and terminal.show_cursor(): what each does to the
\* terminal when it succeeds; a failed one leaves it as it is.
disable_raw_mode(t, outcome) ==
    IF outcome = "Ok" THEN [t EXCEPT !.raw_mode = FALSE] ELSE t
leave_screen(t, outcome) ==
    IF outcome = "Ok"
    THEN [t EXCEPT !.alternate_screen = FALSE, !.mouse_capture = FALSE]
    ELSE t

\* Mutant: the cursor is left hidden.
show_cursor_skipped(t, outcome) == t

show_cursor(t, outcome) ==
    IF outcome = "Ok" THEN [t EXCEPT !.cursor_shown = TRUE] ELSE t

\* The `?` after each of the three: main returns the error at once.
after_restore_step(outcome, next) == IF outcome = "Err" THEN "exit" ELSE next

\* One of the three steps, from its place in main to the next.
Main_restore_step(at, next, outcome, after) ==
    /\ main_pc = at
    /\ pc = "done" /\ result # "none"
    /\ terminal' = after
    /\ main_pc' = after_restore_step(outcome, next)
    /\ main_exit' = IF outcome = "Err" THEN "Err" ELSE main_exit
    /\ UNCHANGED <<monitor_vars, dashboard_vars, events_vars, pc, result, tick_ready,
                   g_step, g_iter, settings, surfaced>>

Main_disable_raw_mode ==
    \E outcome \in {"Ok", "Err"} :
        Main_restore_step("run_app", "leave_screen", outcome,
                          disable_raw_mode(terminal, outcome))
Main_leave_screen ==
    \E outcome \in {"Ok", "Err"} :
        Main_restore_step("leave_screen", "show_cursor", outcome,
                          leave_screen(terminal, outcome))
Main_show_cursor ==
    \E outcome \in {"Ok", "Err"} :
        Main_restore_step("show_cursor", "report", outcome,
                          show_cursor(terminal, outcome))

\* if let Err(err) = result { eprintln!(..) }, and main returns Ok(()).
Main_report ==
    /\ main_pc = "report"
    /\ surfaced' = (result = "Err")
    /\ main_pc' = "exit"
    /\ main_exit' = "Ok"
    /\ UNCHANGED <<monitor_vars, dashboard_vars, events_vars, pc, result, tick_ready,
                   g_step, g_iter, settings, terminal>>

\* No run_app: the components on their own.
NoApp ==
    /\ pc = "done"
    /\ result = "none"
    /\ tick_ready = FALSE
    /\ g_step = NoStep
    /\ g_iter = [draws |-> 0, branches |-> 0, applied |-> FALSE,
                 refreshed |-> FALSE,
                 view |-> [tab |-> "Overview", scroll |-> 0, cpu |-> <<>>,
                           memory |-> <<>>]]
    /\ settings = Settings_default
    /\ terminal = Restored
    /\ main_pc = "exit"
    /\ main_exit = "none"
    /\ surfaced = FALSE

Init == MonitorInit /\ DashboardInit /\ EventsInit /\ NoApp

MonitorNext == refresh_all \/ refresh_cpu \/ refresh_memory \/ set_max_history

SpecMonitor == Init /\ [][MonitorNext]_vars

DashboardNext == Dashboard_handle_event

SpecDashboard == Init /\ [][DashboardNext]_vars

EventsNext == EventHandler_next_event \/ Elapse

SpecEvents == Init /\ [][EventsNext]_vars

AppNext == App_draw \/ App_input("modules") \/ App_tick \/ TimerFires \/ LoopElapse

SpecApp == AppInit /\ [][AppNext]_vars

\* run_app as scheduled: terminal.draw returns, next_event returns (its poll
\* gives up after 100 ms and nothing else in it waits), and select!, which
\* starts from a branch picked at random, does not pass over a ready tick
\* in every round for ever.
AppFairness ==
    /\ WF_vars(App_draw)
    /\ WF_vars(App_input("modules"))
    /\ SF_vars(App_tick)

\* The loop for the progress properties: as AppNext, with the clock of the
\* debounce standing (a key of the debounced class is delivered when it is
\* the first and suppressed after that).
FairNext == App_draw \/ App_input("modules") \/ App_tick \/ TimerFires

SpecAppFair == AppInit /\ [][FairNext]_vars /\ AppFairness

MainNext ==
    App_draw \/ App_input("placeholders") \/ App_tick \/ TimerFires \/ LoopElapse

SpecMain == AppInit /\ [][MainNext]_vars

\* main from the first render to its return, with the Dashboard of
\* dashboard.rs and the EventHandler of events.rs (with the two of ui/mod.rs
\* run_app does not return Ok); the refresh ticks are left out.
RestoreNext ==
    \/ App_draw \/ App_input("modules")
    \/ Main_disable_raw_mode \/ Main_leave_screen \/ Main_show_cursor \/ Main_report

SpecRestore == AppInit /\ [][RestoreNext]_vars

\* main as it is wired, for any loaded settings.
SpecStartup == StartupInit /\ [][MainNext]_vars

(***************************************************************************)
(* Properties of SystemMonitor (checked under SpecMonitor)                 *)
(***************************************************************************)
\* The timestamps (sample numbers) of a sequence of samples.
Timestamps(h) == [i \in 1 .. Len(h) |-> h[i].timestamp]

\* C1: a history that was empty when its capacity C was fixed holds, after
\* n pushes, min(n, C) samples, and they are the last min(n, C) samples
\* pushed, in push order.
C1_PushKeepsLastSamples ==
    /\ g_cpu_base = <<>> =>
          LET n == Len(g_cpu_since)
          IN  /\ Len(cpu_history) = Min(n, max_history)
              /\ cpu_history = LastN(g_cpu_since, Min(n, max_history))
    /\ g_mem_base = <<>> =>
          LET n == Len(g_mem_since)
          IN  /\ Len(memory_history) = Min(n, max_history)
              /\ memory_history = LastN(g_mem_since, Min(n, max_history))

\* C1 witness: capacity 3, samples 1,2,3,4 pushed, the history holds 2,3,4.
C1_Witness ==
    /\ max_history = 3
    /\ g_cpu_base = <<>> /\ g_mem_base = <<>>
    /\ Timestamps(g_cpu_since) = <<1, 2, 3, 4>>
    /\ Timestamps(g_mem_since) = <<1, 2, 3, 4>>
    /\ Timestamps(cpu_history) = <<2, 3, 4>>
    /\ Timestamps(memory_history) = <<2, 3, 4>>

\* Whether the last operation pushed a CPU (memory) sample.
PushedCpu == g_mon_op.op \in {"refresh_all", "refresh_cpu"}
PushedMemory == g_mon_op.op \in {"refresh_all", "refresh_memory"}

\* after is before with its oldest entry evicted and newest appended.
EvictedOldest(before, after, newest) ==
    /\ Len(after) = Len(before)
    /\ \A i \in 1 .. Len(before) - 1 : after[i] = before[i + 1]
    /\ Len(after) > 0 => after[Len(after)] = newest

\* C2: after every operation each history holds at most max_history
\* samples, and a push that overflows evicts exactly one entry, the oldest.
C2_LenWithinCapacity ==
    /\ Len(cpu_history) <= max_history
    /\ Len(memory_history) <= max_history
    /\ (PushedCpu /\ Len(g_mon_op.cpu_before) + 1 > g_mon_op.max_before) =>
          EvictedOldest(g_mon_op.cpu_before, cpu_history,
                        g_cpu_since[Len(g_cpu_since)])
    /\ (PushedMemory /\ Len(g_mon_op.mem_before) + 1 > g_mon_op.max_before) =>
          EvictedOldest(g_mon_op.mem_before, memory_history,
                        g_mem_since[Len(g_mem_since)])

\* C2 witness: refresh_all on two full histories of capacity 2 has evicted
\* the oldest sample of each.
C2_Witness ==
    /\ g_mon_op.op = "refresh_all"
    /\ max_history = 2
    /\ Len(g_mon_op.cpu_before) = 2 /\ Len(g_mon_op.mem_before) = 2
    /\ cpu_history[1] = g_mon_op.cpu_before[2]
    /\ memory_history[1] = g_mon_op.mem_before[2]

\* C2 witness for capacity 0: refresh_all after set_max_history(0) leaves
\* both histories empty.
C2_WitnessZero ==
    /\ g_mon_op.op = "refresh_all"
    /\ g_mon_op.max_before = 0
    /\ cpu_history = <<>> /\ memory_history = <<>>

\* C3: set_max_history(k) leaves in each history the k most recently
\* pushed samples in their order when k < len, and the stored samples as
\* they were when k >= len; the capacity becomes k.
C3_SetMaxHistoryTrims ==
    g_mon_op.op = "set_max_history" =>
        LET k == g_mon_op.max
            Kept(before) == IF k < Len(before) THEN LastN(before, k) ELSE before
        IN  /\ max_history = k
            /\ cpu_history = Kept(g_mon_op.cpu_before)
            /\ memory_history = Kept(g_mon_op.mem_before)

\* C3 witness: set_max_history(2) on histories of three samples.
C3_Witness ==
    /\ g_mon_op.op = "set_max_history"
    /\ g_mon_op.max = 2
    /\ Len(g_mon_op.cpu_before) = 3 /\ Len(g_mon_op.mem_before) = 3
    /\ Timestamps(cpu_history) = <<2, 3>>
    /\ Timestamps(memory_history) = <<2, 3>>

\* C3 witness for growing: set_max_history(3) on histories of two samples.
C3_WitnessGrow ==
    /\ g_mon_op.op = "set_max_history"
    /\ g_mon_op.max = 3
    /\ Len(g_mon_op.cpu_before) = 2 /\ Len(cpu_history) = 2

(***************************************************************************)
(* Properties of Dashboard (checked under SpecDashboard)                   *)
(***************************************************************************)
\* C4: NextTab applied four times in a row returns to the tab it started
\* from, NextTab then PrevTab and PrevTab then NextTab return to the tab
\* they started from, and scroll_offset is 0 afterwards, whatever the
\* starting tab and scroll offset.
C4_TabCycle ==
    /\ g_run.count = 4 =>
          /\ current_tab = g_run.tab
          /\ process_scroll_offset = 0
    /\ (g_prev.called /\ <<g_prev.action, g_last.action>> \in
            {<<NextTab, PrevTab>>, <<PrevTab, NextTab>>}) =>
          /\ current_tab = g_prev.tab
          /\ process_scroll_offset = 0

\* C4 witness: four NextTab in a row, started in Processes at scroll
\* offset 3.
C4_Witness ==
    /\ g_run.count = 4
    /\ g_run.tab = "Processes"
    /\ g_run.scroll = 3
    /\ current_tab = "Processes"

\* C4 witness for the inverse pair: NextTab then PrevTab from Help (the
\* wrap-around), reached at a non-zero scroll offset.
C4_WitnessPair ==
    /\ g_prev.called
    /\ g_prev.action = NextTab /\ g_last.action = PrevTab
    /\ g_prev.tab = "Help" /\ g_prev.scroll > 0
    /\ current_tab = "Help"

\* The tab cycle, written out.
TabAfter(tab) ==
    CASE tab = "Overview" -> "Processes"
      [] tab = "Processes" -> "Network"
      [] tab = "Network" -> "Help"
      [] tab = "Help" -> "Overview"

TabBefore(tab) ==
    CASE tab = "Overview" -> "Help"
      [] tab = "Help" -> "Network"
      [] tab = "Network" -> "Processes"
      [] tab = "Processes" -> "Overview"

\* C5: a new dashboard shows Overview at scroll offset 0; NextTab moves
\* Overview -> Processes -> Network -> Help -> Overview and PrevTab moves
\* through the same cycle backwards.
C5_TabOrder ==
    /\ ~g_last.called => current_tab = "Overview" /\ process_scroll_offset = 0
    /\ (g_last.called /\ g_last.action = NextTab) => current_tab = TabAfter(g_last.tab)
    /\ (g_last.called /\ g_last.action = PrevTab) => current_tab = TabBefore(g_last.tab)

\* C5 witness: the third NextTab in a row from Overview has reached Help.
C5_Witness ==
    /\ g_run.count = 3
    /\ g_run.tab = "Overview"
    /\ current_tab = "Help"

\* C5 witness for PrevTab: Overview -> Help.
C5_WitnessPrev ==
    /\ g_last.called /\ g_last.action = PrevTab
    /\ g_last.tab = "Overview"
    /\ current_tab = "Help"

\* C6: outside the Processes tab, ScrollUp and ScrollDown leave the scroll
\* offset and the tab as they were.
C6_ScrollOutsideProcesses ==
    (/\ g_last.called
     /\ g_last.action \in {ScrollUp, ScrollDown}
     /\ g_last.tab # "Processes") =>
        /\ process_scroll_offset = g_last.scroll
        /\ current_tab = g_last.tab

\* C6 witness: ScrollDown in the Help tab at scroll offset 3.
C6_Witness ==
    /\ g_last.called /\ g_last.action = ScrollDown
    /\ g_last.tab = "Help" /\ g_last.scroll = 3
    /\ process_scroll_offset = 3

\* C6 witness for ScrollUp, in the Help tab at scroll offset 3.
C6_WitnessUp ==
    /\ g_last.called /\ g_last.action = ScrollUp
    /\ g_last.tab = "Help" /\ g_last.scroll = 3
    /\ process_scroll_offset = 3

\* C7: in the Processes tab ScrollUp sets the scroll offset to
\* max(scroll_offset - 1, 0) and leaves the tab as it was.
C7_ScrollUpSaturates ==
    (/\ g_last.called
     /\ g_last.action = ScrollUp
     /\ g_last.tab = "Processes") =>
        /\ process_scroll_offset = Max(g_last.scroll - 1, 0)
        /\ current_tab = "Processes"

\* C7 witness: ScrollUp from 1 to 0, then ScrollUp again, staying at 0.
C7_Witness ==
    /\ g_prev.called /\ g_prev.action = ScrollUp /\ g_last.action = ScrollUp
    /\ g_prev.tab = "Processes"
    /\ g_prev.scroll = 1 /\ g_last.scroll = 0
    /\ process_scroll_offset = 0

\* C7 witness for the first step of the scenario: ScrollUp from 5 to 4.
C7_WitnessFive ==
    /\ g_last.called /\ g_last.action = ScrollUp
    /\ g_last.tab = "Processes"
    /\ g_last.scroll = 5
    /\ process_scroll_offset = 4

(***************************************************************************)
(* Properties of EventHandler (checked under SpecEvents)                   *)
(***************************************************************************)
\* The debounce window in clock ticks.
Window == key_debounce_ms * TicksPerMs

\* How many of the first n debounced keys were delivered.
RECURSIVE DeliveredAmong(_)
DeliveredAmong(n) ==
    IF n = 0 THEN 0
    ELSE DeliveredAmong(n - 1) + (IF g_triggers[n].delivered THEN 1 ELSE 0)

\* C8: of the first two keys of the debounced class, read by a new
\* handler, one is delivered when they are less than the window apart and
\* both are when they are the window or more apart.
C8_DebounceWindow ==
    /\ Len(g_triggers) >= 1 => g_triggers[1].delivered
    /\ Len(g_triggers) >= 2 =>
          LET gap == g_triggers[2].time - g_triggers[1].time
          IN  DeliveredAmong(2) = IF gap < Window THEN 1 ELSE 2

\* C8 witness: two keys exactly 150 ms apart, both delivered.
C8_Witness ==
    /\ Len(g_triggers) >= 2
    /\ g_triggers[2].time - g_triggers[1].time = Window
    /\ g_triggers[1].delivered /\ g_triggers[2].delivered

\* C8 witness below the window: two keys one tick less than 150 ms apart,
\* the second suppressed.
C8_WitnessBelow ==
    /\ Len(g_triggers) >= 2
    /\ g_triggers[2].time - g_triggers[1].time = Window - 1
    /\ g_triggers[1].delivered /\ ~g_triggers[2].delivered

\* The debounced keys delivered before the i-th one.
DeliveredBefore(i) == {j \in 1 .. i - 1 : g_triggers[j].delivered}

\* C9: a suppressed key leaves last_key_time as it was; last_key_time is
\* the time of the last delivered key of the class, and a key of the class
\* is delivered exactly when no delivered one is less than the window
\* before it.
C9_WindowFromLastDelivered ==
    /\ (g_call.called /\ IsTrigger(g_call.input) /\ g_call.returned = None) =>
          last_key_time = g_call.before
    /\ LET delivered == DeliveredBefore(Len(g_triggers) + 1)
       IN  last_key_time =
               IF delivered = {} THEN None
               ELSE Some(g_triggers[CHOOSE j \in delivered :
                                       \A k \in delivered : k <= j].time)
    /\ \A i \in 1 .. Len(g_triggers) :
          g_triggers[i].delivered <=>
              \A j \in DeliveredBefore(i) :
                  g_triggers[i].time - g_triggers[j].time >= Window

\* C9 witness: Tab at 0, 100 and 200 ms; the first and the third are
\* delivered, the second is suppressed.
C9_Witness ==
    /\ Len(g_triggers) = 3
    /\ \A i \in 1 .. 3 : g_triggers[i].code = "Tab"
    /\ g_triggers[1].time = 0
    /\ g_triggers[2].time = 100 * TicksPerMs
    /\ g_triggers[3].time = 200 * TicksPerMs
    /\ g_triggers[1].delivered
    /\ ~g_triggers[2].delivered
    /\ g_triggers[3].delivered
    /\ last_key_time = Some(200 * TicksPerMs)

\* The keys of the actions that are not debounced.
NonDebouncedKeys ==
    {Key("Up", "NONE"), Key("Down", "NONE"), Key("r", "NONE"), Key("h", "NONE"),
     Key("q", "NONE"), Key("c", "CONTROL"), Key("Esc", "NONE")}

\* C10: next_event delivers every key of a non-debounced action that it
\* reads, and leaves last_key_time as it was.
C10_NonDebouncedDelivered ==
    (/\ g_call.called
     /\ IsRead(g_call.input)
     /\ g_call.input.event \in NonDebouncedKeys) =>
        /\ g_call.returned = Some(g_call.input.event)
        /\ last_key_time = g_call.before

\* C10 witness: Up, read at the very instant a Tab was delivered, is
\* delivered.
C10_Witness ==
    /\ g_call.called
    /\ g_call.input = ReadOk(Key("Up", "NONE"))
    /\ g_call.before = Some(g_now)
    /\ g_call.returned = Some(Key("Up", "NONE"))
    /\ last_key_time = Some(g_now)

(***************************************************************************)
(* Direct tab selection and the scroll reset (SpecDashboard)               *)
(***************************************************************************)
\* The digit keys, in the order of the tabs they name.
DigitKeys == <<Key("1", "NONE"), Key("2", "NONE"), Key("3", "NONE"), Key("4", "NONE")>>

\* C19: the digit keys 1-4 map to GoToTab(0..3), and handle_event with
\* GoToTab(i), from any tab, makes tab i the active tab.
C19_GoToTabActivates ==
    /\ \A i \in 0 .. 3 : handle_key_event(DigitKeys[i + 1]) = GoToTab(i)
    /\ (g_last.called /\ g_last.action.name = "GoToTab") =>
           current_tab = TabIndexFrom(g_last.action.index)

\* C19, what the code does: handle_event with GoToTab(i) leaves the tab and
\* the scroll offset as they were and does not ask to quit.
C19_GoToTabIgnored ==
    (g_last.called /\ g_last.action.name = "GoToTab") =>
        /\ current_tab = g_last.tab
        /\ process_scroll_offset = g_last.scroll
        /\ ~g_last.quit

\* C19 witness: key 3 (GoToTab(2)) in the Overview tab, which stays active.
C19_Witness ==
    /\ g_last.called /\ g_last.action = GoToTab(2)
    /\ g_last.tab = "Overview"
    /\ current_tab = "Overview"

\* C20 as stated: whenever handle_event changes the active tab, the scroll
\* offset is 0 afterwards.
C20_ResetOnEveryTabChange ==
    (g_last.called /\ current_tab # g_last.tab) => process_scroll_offset = 0

\* C20, amended: a tab change made by NextTab or PrevTab sets the scroll
\* offset to 0; a tab change made by Help leaves the scroll offset as it
\* was; and no other action changes the tab.
C20_ResetOnNextPrevNotHelp ==
    (g_last.called /\ current_tab # g_last.tab) =>
        /\ g_last.action \in {NextTab, PrevTab, Help}
        /\ g_last.action \in {NextTab, PrevTab} => process_scroll_offset = 0
        /\ g_last.action = Help =>
               current_tab = "Help" /\ process_scroll_offset = g_last.scroll

\* C20 witness: NextTab in the Processes tab at scroll offset 3 gives the
\* Network tab at scroll offset 0.
C20_Witness ==
    /\ g_last.called /\ g_last.action = NextTab
    /\ g_last.tab = "Processes" /\ g_last.scroll = 3
    /\ current_tab = "Network" /\ process_scroll_offset = 0

\* C20 witness for Help: h in the Processes tab at scroll offset 3 gives the
\* Help tab, still at scroll offset 3.
C20_WitnessHelp ==
    /\ g_last.called /\ g_last.action = Help
    /\ g_last.tab = "Processes" /\ g_last.scroll = 3
    /\ current_tab = "Help" /\ process_scroll_offset = 3

(***************************************************************************)
(* run_app (SpecMain: as main.rs is wired; SpecApp: with dashboard.rs and  *)
(* events.rs)                                                              *)
(***************************************************************************)
\* The terminal had a quit key (q, Ctrl+C or Esc) for the input branch that
\* ran last.
QuitKeyPressed ==
    /\ g_step.kind = "input"
    /\ IsRead(g_step.input)
    /\ should_quit(g_step.input.event)

\* C11: when the loop of run_app, with the Dashboard and EventHandler that
\* main.rs imports, gets a quit key, run_app returns Ok, handles no further
\* input event or tick, and leaves the tab, the scroll offset and the
\* histories as they were before the key.
C11_QuitTerminates ==
    QuitKeyPressed => pc = "done" /\ result = "Ok" /\ View = g_iter.view

\* C11, what the code does: with the Dashboard and EventHandler of ui/mod.rs
\* next_event never reads the terminal and handle_event is never called, so
\* run_app never returns Ok; it ends only when a render call fails.
C11_NeverReturnsOk ==
    /\ result # "Ok"
    /\ g_step.returned = None
    /\ ~g_iter.applied
    /\ pc = "done" => result = "Err"

\* C11 witness: q is pressed, the input branch runs, and the loop goes on to
\* its next render.
C11_Witness ==
    /\ g_step.kind = "input"
    /\ g_step.input = ReadOk(Key("q", "NONE"))
    /\ pc = "draw" /\ result = "none"

\* C11 with struct Dashboard of dashboard.rs and struct EventHandler of
\* events.rs in place of the two of ui/mod.rs (SpecApp): there the quit key
\* ends the loop.
C11_QuitTerminatesWithModules ==
    QuitKeyPressed =>
        /\ pc = "done" /\ result = "Ok" /\ View = g_iter.view
        /\ g_step.quit

\* Witness of the above: Ctrl+C ends the loop in the Processes tab.
C11_WitnessWithModules ==
    /\ g_step.kind = "input"
    /\ g_step.input = ReadOk(Key("c", "CONTROL"))
    /\ current_tab = "Processes"
    /\ pc = "done" /\ result = "Ok"

\* C12: between two consecutive render calls of run_app it never happens
\* that both an input event is applied to the dashboard and refresh_all
\* runs.
C12_TickAndInputExclusive == ~(g_iter.applied /\ g_iter.refreshed)

\* C12 witness: an input event (Tab, to the Processes tab) is applied while
\* the tick is ready too, and refresh_all has not run since the last render.
C12_Witness ==
    /\ g_iter.applied /\ ~g_iter.refreshed
    /\ tick_ready
    /\ g_step.returned = Some(Key("Tab", "NONE"))
    /\ current_tab = "Processes"

\* C12 witness for the other branch: refresh_all ran, no event was applied.
C12_WitnessTick ==
    /\ g_iter.refreshed /\ ~g_iter.applied
    /\ g_step.kind = "tick"
    /\ Len(cpu_history) = Len(g_iter.view.cpu) + 1

\* C13: in every loop iteration exactly one of the two branches of select!
\* runs (the input branch counts also when next_event returned None and no
\* event was applied), and the render that follows sees exactly the state
\* that branch left: the state is the rendered one until the next branch.
C13_OneBranchPerIteration ==
    /\ g_iter.branches <= 1
    /\ (g_step.kind # "none") <=> (g_iter.branches = 1)
    /\ g_iter.branches = 1 => pc \in {"draw", "done"}
    /\ pc = "select" => g_iter.branches = 0 /\ View = g_iter.view

\* C13 witness: after one tick and a Tab, the render has seen the state of
\* the Tab (Processes tab, two samples) and the next select! is awaited.
C13_Witness ==
    /\ pc = "select"
    /\ g_iter.draws = 1 /\ g_iter.branches = 0
    /\ g_iter.view.tab = "Processes" /\ current_tab = "Processes"
    /\ Len(g_iter.view.cpu) = 2 /\ Len(cpu_history) = 2

\* C14: after a branch of select! (an input event or a tick handled) the
\* loop makes exactly one render call, of the state as it then is, before
\* the next branch; after Quit it makes none.
C14_OneRenderAfterHandling ==
    /\ g_iter.draws <= 1
    /\ pc = "select" => g_iter.draws = 1 /\ View = g_iter.view
    /\ (g_step.kind # "none" /\ ~g_step.quit) => pc = "draw" /\ g_iter.draws = 0
    /\ g_step.quit => pc = "done" /\ result = "Ok" /\ g_iter.draws = 0

\* C14 witness: Quit was handled after a ScrollDown in the Processes tab had
\* been rendered; the loop is over with no render since the Quit.
C14_Witness ==
    /\ g_step.quit /\ pc = "done" /\ g_iter.draws = 0
    /\ g_iter.view.tab = "Processes" /\ g_iter.view.scroll = 1

\* C14 witness for the render: one render since the tick, showing its sample.
C14_WitnessRender ==
    /\ pc = "select" /\ g_iter.draws = 1
    /\ g_mon_op.cpu_before # <<>>
    /\ g_iter.view.cpu = cpu_history /\ Len(cpu_history) = 2

\* C15: when a render call fails run_app returns the error at once: the
\* render is not made again and no input event or tick is handled after it.
C15_RenderFailureAborts ==
    result = "Err" =>
        /\ pc = "done"
        /\ g_iter.draws = 1 /\ g_iter.branches = 0
        /\ g_step = NoStep
        /\ View = g_iter.view

\* C15 witness: the render after a tick and a Tab fails.
C15_Witness ==
    /\ result = "Err" /\ pc = "done"
    /\ current_tab = "Processes" /\ Len(cpu_history) = 2

\* C16: a failure of the input poll or of the input read makes next_event
\* return None; the debounce timestamp, the tab, the scroll offset and the
\* histories stay as they are, and the loop goes on to its next iteration.
C16_InputFailureSwallowed ==
    [][(/\ pc = "select"
        /\ g_iter'.branches = g_iter.branches + 1
        /\ g_step'.kind = "input"
        /\ g_step'.input \in {PollError, ReadError}) =>
           /\ g_step'.returned = None
           /\ last_key_time' = last_key_time
           /\ View' = View
           /\ ~g_iter'.applied
           /\ pc' = "draw" /\ result' = "none"]_vars

\* C16 witness: the read fails in the Processes tab, with a debounce
\* timestamp recorded earlier, and the loop is at its next render.
C16_Witness ==
    /\ g_step.kind = "input" /\ g_step.input = ReadError
    /\ last_key_time # None /\ g_now > last_key_time[1]
    /\ current_tab = "Processes"
    /\ pc = "draw" /\ result = "none"

\* C16 witness for the poll: the poll fails, same situation.
C16_WitnessPoll ==
    /\ g_step.kind = "input" /\ g_step.input = PollError
    /\ last_key_time # None /\ g_now > last_key_time[1]
    /\ pc = "draw" /\ result = "none"

\* One new sample, stamped now, was added at the back of the history, and
\* the oldest one left if the history was full.
OneSampleAppended(before, after, max) ==
    /\ after # <<>>
    /\ after[Len(after)].timestamp = g_clock
    /\ IF Len(before) < max
       THEN after = Append(before, after[Len(after)])
       ELSE EvictedOldest(before, after, after[Len(after)])

\* C17: a handled refresh tick adds exactly one new sample to the CPU
\* history and exactly one to the memory history (the oldest sample
\* leaving when the history is at capacity).
C17_TickAppendsOneSample ==
    g_step.kind = "tick" =>
        /\ g_mon_op.op = "refresh_all"
        /\ OneSampleAppended(g_mon_op.cpu_before, cpu_history, max_history)
        /\ OneSampleAppended(g_mon_op.mem_before, memory_history, max_history)
        /\ g_iter.view.cpu = g_mon_op.cpu_before
        /\ g_iter.view.memory = g_mon_op.mem_before

\* C17 witness: the second tick, taking both histories from 2 to 3 samples.
C17_Witness ==
    /\ g_step.kind = "tick"
    /\ Len(g_mon_op.cpu_before) = 2 /\ Len(cpu_history) = 3
    /\ Len(g_mon_op.mem_before) = 2 /\ Len(memory_history) = 3

\* The input branch that ran last handled the key r (Refresh).
RefreshHandled ==
    /\ g_step.kind = "input"
    /\ g_step.returned = Some(Key("r", "NONE"))
    /\ g_iter.applied

\* C18: when Refresh (key r) is handled, the metrics are refreshed in that
\* iteration, one sample going to each history without a timer tick, and
\* the tab and the scroll offset stay as they were.
C18_RefreshForcesSnapshot ==
    RefreshHandled =>
        /\ Len(cpu_history) = Len(g_iter.view.cpu) + 1
        /\ Len(memory_history) = Len(g_iter.view.memory) + 1
        /\ current_tab = g_iter.view.tab
        /\ process_scroll_offset = g_iter.view.scroll

\* C18, what the code does: handling Refresh changes nothing at all: no
\* refresh runs and the histories, the tab and the scroll offset stay.
C18_RefreshIgnored ==
    RefreshHandled =>
        /\ ~g_iter.refreshed
        /\ View = g_iter.view
        /\ pc = "draw"

\* C18 witness: r is handled with one sample in each history, and one
\* sample is what each history still holds.
C18_Witness ==
    /\ RefreshHandled
    /\ handle_key_event(g_step.returned[1]) = Refresh
    /\ Len(g_iter.view.cpu) = 1 /\ Len(cpu_history) = 1
    /\ Len(memory_history) = 1

(***************************************************************************)
(* Help and the events without an action (SpecDashboard)                   *)
(***************************************************************************)
\* C21: Help (key h), from any tab, makes Help the active tab and leaves the
\* scroll offset as it was; applied again in the Help tab it changes
\* nothing.
C21_HelpIdempotent ==
    /\ handle_key_event(Key("h", "NONE")) = Help
    /\ (g_last.called /\ g_last.action = Help) =>
           /\ current_tab = "Help"
           /\ process_scroll_offset = g_last.scroll
           /\ ~g_last.quit
    /\ LET once == handle_event(Self, Key("h", "NONE"))
           twice == handle_event(once.self, Key("h", "NONE"))
       IN  twice = once

\* C21 witness: h in the Processes tab at scroll offset 3, then h again in
\* the Help tab: Help, offset 3, both times.
C21_Witness ==
    /\ g_prev.called /\ g_prev.action = Help /\ g_last.action = Help
    /\ g_prev.tab = "Processes" /\ g_prev.scroll = 3
    /\ g_last.tab = "Help" /\ g_last.scroll = 3
    /\ current_tab = "Help" /\ process_scroll_offset = 3

\* The events of the model that the mapping table does not hold.
NoActionEvents == UnmappedKeys \cup {Resize}

\* C23: a key event whose (code, modifiers) pair is not in the mapping
\* table, and an event that is not a key event, gives no action:
\* handle_event returns "continue" and leaves the tab and the scroll offset
\* as they were.
C23_UnmappedNoAction ==
    /\ \A e \in NoActionEvents :
           /\ ActionOf(e) = NoAction
           /\ handle_event(Self, e) = [self |-> Self, quit |-> FALSE]
    /\ (g_last.called /\ g_last.action = NoAction) =>
           /\ ~g_last.quit
           /\ current_tab = g_last.tab
           /\ process_scroll_offset = g_last.scroll

\* C23 witness: an event without an action in the Processes tab at scroll
\* offset 3, which is still the state.
C23_Witness ==
    /\ g_last.called /\ g_last.action = NoAction
    /\ g_last.tab = "Processes" /\ g_last.scroll = 3
    /\ current_tab = "Processes" /\ process_scroll_offset = 3

(***************************************************************************)
(* run_app: what each branch touches (SpecApp)                             *)
(***************************************************************************)
\* The step is the branch of select! of the given kind ("input", "tick").
BranchStep(kind) ==
    /\ pc = "select"
    /\ g_iter'.branches = g_iter.branches + 1
    /\ g_step'.kind = kind

\* C22: handling a refresh tick leaves the active tab, the scroll offset and
\* the debounce timestamp as they were, and handling an input event, any,
\* leaves both histories and their capacity as they were.
C22_DisjointState ==
    [][/\ BranchStep("tick") =>
              /\ current_tab' = current_tab
              /\ process_scroll_offset' = process_scroll_offset
              /\ last_key_time' = last_key_time
       /\ BranchStep("input") =>
              /\ cpu_history' = cpu_history
              /\ memory_history' = memory_history
              /\ max_history' = max_history]_vars

\* C22 witness: a tick handled in the Processes tab at scroll offset 2 with
\* a debounce timestamp set; all three are still there.
C22_Witness ==
    /\ g_step.kind = "tick"
    /\ current_tab = "Processes" /\ process_scroll_offset = 2
    /\ last_key_time # None

\* C22 witness for the input branch: an event applied (ScrollDown) after a
\* tick, with both histories still at two samples.
C22_WitnessInput ==
    /\ g_step.kind = "input" /\ g_iter.applied
    /\ g_step.returned = Some(Key("Down", "NONE"))
    /\ process_scroll_offset = 1
    /\ Len(cpu_history) = 2 /\ Len(memory_history) = 2
    /\ max_history = DefaultMaxHistory

(***************************************************************************)
(* Scrolling past the end of the process list (SpecDashboard)              *)
(***************************************************************************)
\* C24: in the Processes tab ScrollDown adds exactly 1 to the scroll offset,
\* whatever the number of processes; the process widget then shows the
\* slice of the sorted process list that starts at the scroll offset, empty
\* when the offset is at or beyond the end, and reads no entry past the end.
C24_ScrollUnclampedRenderTruncates ==
    /\ (g_last.called /\ g_last.action = ScrollDown /\ g_last.tab = "Processes") =>
           process_scroll_offset = g_last.scroll + 1 /\ current_tab = "Processes"
    /\ \A processes \in ProcessLists, height \in Heights :
           LET sorted == sort_by_cpu(processes)
               rows == saturating_sub(height, 2)
               items == ProcessWidget_render(processes, height, process_scroll_offset)
           IN  /\ items # "panic"
               /\ Len(items) =
                      Max(0, Min(rows, Len(sorted) - process_scroll_offset))
               /\ \A i \in 1 .. Len(items) :
                      /\ process_scroll_offset + i <= Len(sorted)
                      /\ items[i] = sorted[process_scroll_offset + i]

\* C24 witness: ScrollDown from 4 to 5 in the Processes tab, beyond the two
\* processes of a list that is then shown empty.
C24_Witness ==
    /\ g_last.called /\ g_last.action = ScrollDown
    /\ g_last.tab = "Processes" /\ g_last.scroll = 4
    /\ process_scroll_offset = 5
    /\ \E processes \in ProcessLists :
           /\ Len(processes) = 2
           /\ ProcessWidget_render(processes, 4, process_scroll_offset) = <<>>

\* C24 witness for a slice that is not empty: at offset 1 a list of two
\* shows its second process in CPU order.
C24_WitnessSlice ==
    /\ current_tab = "Processes" /\ process_scroll_offset = 1
    /\ ProcessWidget_render(<<[pid |-> 1, cpu |-> 0], [pid |-> 2, cpu |-> 7]>>, 4,
                            process_scroll_offset) = <<[pid |-> 1, cpu |-> 0]>>

(***************************************************************************)
(* run_app: progress (SpecAppFair)                                         *)
(***************************************************************************)
\* run_app has not returned and never does: no quit key is handled and no
\* render call fails.
NeverReturns == [](result = "none")

\* C25: when no quit key arrives and no render call fails, the loop does
\* not wait for input for ever: whether input events arrive or not, the
\* render call is made again and again.
C25_RendersForever ==
    NeverReturns => /\ []<>(pc = "draw")
                    /\ []<>(pc = "select" /\ g_iter.draws = 1)

\* C25 witness: the loop has made a render call again after a round in
\* which poll timed out, with no event ever delivered and all time passed.
C25_Witness ==
    /\ pc = "select" /\ g_iter.draws = 1 /\ result = "none"
    /\ last_key_time = None /\ current_tab = "Overview"
    /\ ~tick_ready /\ g_ops = MaxTicks + 1

\* C26: once a tick is due it is handled, refresh_all running, whatever the
\* input available in each round, as long as run_app does not return.
C26_TickNotStarved ==
    NeverReturns => (tick_ready ~> (g_step.kind = "tick" /\ g_iter.refreshed))

\* C26 witness: a tick was due while an input event was applied in the
\* round before, and in this round the tick was handled.
C26_Witness ==
    /\ g_step.kind = "tick" /\ g_iter.refreshed
    /\ current_tab = "Processes" /\ process_scroll_offset = 1
    /\ Len(cpu_history) = 3

(***************************************************************************)
(* One debounce guard, and the keys it looks at (SpecEvents)               *)
(***************************************************************************)
\* C27: Tab and BackTab share the one timestamp: a BackTab less than the
\* window after a delivered Tab is suppressed, and so is a Tab less than
\* the window after a delivered BackTab.
C27_SharedDebounceGuard ==
    \A i, j \in 1 .. Len(g_triggers) :
        (/\ i < j
         /\ g_triggers[i].delivered
         /\ g_triggers[i].code # g_triggers[j].code
         /\ g_triggers[j].time - g_triggers[i].time < Window) =>
            ~g_triggers[j].delivered

\* C27 witness: Tab delivered at 0, BackTab 50 ms later suppressed.
C27_Witness ==
    /\ Len(g_triggers) = 2
    /\ g_triggers[1].code = "Tab" /\ g_triggers[1].delivered
    /\ g_triggers[2].code = "BackTab" /\ ~g_triggers[2].delivered
    /\ g_triggers[2].time - g_triggers[1].time = 50 * TicksPerMs
    /\ g_call.input = ReadOk(Key("BackTab", "SHIFT"))

\* C27 witness the other way round: BackTab delivered, Tab suppressed one
\* tick less than the window later.
C27_WitnessBackTabFirst ==
    /\ Len(g_triggers) = 2
    /\ g_triggers[1].code = "BackTab" /\ g_triggers[1].delivered
    /\ g_triggers[2].code = "Tab" /\ ~g_triggers[2].delivered
    /\ g_call.input = ReadOk(Key("Tab", "NONE"))

\* The step is a call of next_event that read a key event, the one of
\* g_call', after the call of g_call.
ReadsKey ==
    /\ g_call' # g_call
    /\ IsRead(g_call'.input)
    /\ g_call'.input.event.type = "Key"

\* C28: a key event that maps to no action (Tab with Ctrl, say) never
\* changes the debounce timestamp, and so never makes next_event suppress
\* a mapped Tab or Shift+Tab that follows it.
C28_UnmappedNeverDebounces ==
    [][/\ (ReadsKey /\ handle_key_event(g_call'.input.event) = NoAction) =>
              last_key_time' = last_key_time
       /\ (/\ ReadsKey
           /\ handle_key_event(g_call'.input.event) \in {NextTab, PrevTab}
           /\ g_call.called /\ IsRead(g_call.input)
           /\ g_call.input.event.type = "Key"
           /\ handle_key_event(g_call.input.event) = NoAction
           /\ g_call.before = None) =>
              g_call'.returned # None]_vars

\* C28, what the code does: the guard looks at the key code alone, before
\* any mapping: every key with code Tab or BackTab that next_event returns,
\* mapped or not, becomes the debounce timestamp.
C28_DebounceByCodeAlone ==
    [][(ReadsKey /\ g_call'.input.event.code \in {"Tab", "BackTab"}) =>
           IF g_call'.returned # None
           THEN last_key_time' = Some(g_now)
           ELSE last_key_time' = last_key_time /\ last_key_time # None]_vars

\* C28 witness: Ctrl+Tab, which maps to no action, set the timestamp of a
\* new handler, and the Tab read 50 ms later was suppressed.
C28_Witness ==
    /\ Len(g_triggers) = 2
    /\ g_triggers[1].time = 0 /\ g_triggers[1].delivered
    /\ g_triggers[2].time = 50 * TicksPerMs /\ ~g_triggers[2].delivered
    /\ g_call.input = ReadOk(Key("Tab", "NONE"))
    /\ g_call.returned = None
    /\ g_call.before = Some(0)
    /\ handle_key_event(Key("Tab", "CONTROL")) = NoAction

(***************************************************************************)
(* The capacity of the histories at startup (SpecStartup)                  *)
(***************************************************************************)
\* C30: the capacity of the CPU and the memory history is the one the
\* loaded settings give (cpu_history_length, memory_history_length), so
\* that after startup each history holds at most that many samples.
C30_CapacityFromSettings ==
    /\ max_history = settings.cpu_history_length
    /\ max_history = settings.memory_history_length
    /\ Len(cpu_history) <= settings.cpu_history_length
    /\ Len(memory_history) <= settings.memory_history_length

\* C30, what the code does: the capacity of both histories is the 60 of
\* SystemMonitor::new whatever the settings hold, and that is the bound on
\* what they hold.
C30_CapacityIsSixty ==
    /\ max_history = DefaultMaxHistory
    /\ Len(cpu_history) <= DefaultMaxHistory
    /\ Len(memory_history) <= DefaultMaxHistory

\* C30 witness: with both lengths set to 2 the histories hold 3 samples
\* each after two ticks.
C30_Witness ==
    /\ settings = [cpu_history_length |-> 2, memory_history_length |-> 2]
    /\ Len(cpu_history) = 3 /\ Len(memory_history) = 3
    /\ max_history = DefaultMaxHistory

C29_WitnessQuit ==
    /\ result = "Ok" /\ g_step.quit /\ main_exit = "Ok"
    /\ terminal = Restored /\ ~surfaced

\* C29 witness for a failed restore: run_app returned a render error,
\* disable_raw_mode failed: main has returned with the terminal as it was
\* and the render error not printed.
C29_WitnessRestoreFails ==
    /\ result = "Err" /\ main_exit = "Err"
    /\ terminal = InUse /\ ~surfaced

(***************************************************************************)
(* Entering the Processes tab (SpecDashboard)                              *)
(***************************************************************************)
\* C31: after any sequence of events given to a new dashboard, a call of
\* handle_event that makes Processes the active tab from another tab leaves
\* the scroll offset at 0: an offset left over in another tab (as after h
\* while scrolled) does not come into the Processes tab.
C31_ProcessesEnteredAtZero ==
    (g_last.called /\ current_tab = "Processes" /\ g_last.tab # "Processes") =>
        /\ process_scroll_offset = 0
        /\ g_last.action \in {NextTab, PrevTab}

\* C31 witness: h while scrolled to 3 left the offset 3 in the Help tab;
\* PrevTab from there gave Network, and PrevTab again gives Processes at 0.
C31_Witness ==
    /\ g_prev.called /\ g_prev.action = PrevTab
    /\ g_prev.tab = "Help" /\ g_prev.scroll = 3
    /\ g_last.action = PrevTab /\ g_last.tab = "Network" /\ g_last.scroll = 0
    /\ current_tab = "Processes" /\ process_scroll_offset = 0

\* C31 witness for the other way in: NextTab from Overview.
C31_WitnessNext ==
    /\ g_prev.called /\ g_prev.action = NextTab
    /\ g_prev.tab = "Help" /\ g_prev.scroll = 3
    /\ g_last.action = NextTab /\ g_last.tab = "Overview"
    /\ current_tab = "Processes" /\ process_scroll_offset = 0

(***************************************************************************)
(* The two histories side by side (SpecMonitor)                            *)
(***************************************************************************)
\* The two histories hold the same number of samples.
SameLength == Len(cpu_history) = Len(memory_history)

\* The step is a SystemMonitor operation, the one g_mon_op' names.
MonitorStep == g_ops' = g_ops + 1

\* C32: a new monitor has histories of the same length, and refresh_all and
\* set_max_history keep them so, so that every state reached through them
\* alone has the two lengths equal; a step that makes the lengths differ is
\* a refresh_cpu or a refresh_memory.
C32_SameLengthThroughLoop ==
    /\ SameLength
    /\ [][MonitorStep /\ SameLength =>
             /\ g_mon_op'.op \in {"refresh_all", "set_max_history"} => SameLength'
             /\ ~SameLength' => g_mon_op'.op \in {"refresh_cpu", "refresh_memory"}]_vars

\* C32 witness: refresh_all at capacity 2 with two samples in each history
\* (one evicted from each) and then set_max_history(1): one sample in each.
C32_Witness ==
    /\ g_mon_op.op = "set_max_history" /\ g_mon_op.max = 1
    /\ g_mon_op.max_before = 2
    /\ Len(g_mon_op.cpu_before) = 2 /\ Len(g_mon_op.mem_before) = 2
    /\ g_clock >= 3
    /\ Len(cpu_history) = 1 /\ Len(memory_history) = 1

\* C32 witness for refresh_all at capacity: both histories full before and
\* after, each with a new last sample.
C32_WitnessRefreshAll ==
    /\ g_mon_op.op = "refresh_all"
    /\ Len(g_mon_op.cpu_before) = max_history
    /\ Len(g_mon_op.mem_before) = max_history
    /\ max_history = 2
    /\ Len(cpu_history) = 2 /\ Len(memory_history) = 2

\* C32 witness for the exception: refresh_cpu after equal lengths leaves
\* the CPU history one sample longer than the memory history.
C32_WitnessRefreshCpu ==
    /\ g_mon_op.op = "refresh_cpu"
    /\ Len(g_mon_op.cpu_before) = Len(g_mon_op.mem_before)
    /\ Len(cpu_history) = Len(memory_history) + 1

=============================================================================
